---------------------------- MODULE Spec2Model ----------------------------
(***************************************************************************)
(* A model of the S-expression reader, evaluator and printer of            *)
(* src/core.c.                                                             *)
(*                                                                         *)
(* The heap is a sequence of objects, an object's address is its index.    *)
(* Address 0 is the C NULL pointer.  The two static atoms True and Nil     *)
(* (core.c:16-17) live at addresses 1 and 2; everything else is allocated  *)
(* by new_object.  Characters are one-character strings, texts and symbol  *)
(* names are sequences of characters.                                      *)
(***************************************************************************)
EXTENDS Integers, Sequences, FiniteSets, TLC

VARIABLES heap, envs, out, status, input, rstack, rpend, rret, pc, job,
          result, forms, idx, out1, out2, call

vars == <<heap, envs, out, status, input, rstack, rpend, rret, pc, job,
          result, forms, idx, out1, out2, call>>

(***************************************************************************)
(* Bounds of the model.                                                    *)
(***************************************************************************)
\* largest n for which the countdown loop is run
MaxN == 3
\* slack of loop passes beyond MaxN before a while loop counts as still running
IterSlack == 2
\* objects the reader may allocate before the model stops following it
MaxHeap == 40

MaxIter == MaxN + IterSlack

(***************************************************************************)
(* Program constants.                                                      *)
(***************************************************************************)
SYMBOL_MAX_LENGTH == 128

NULL == 0
True == 1
Nil == 2

symbol_special_chars == {"+", "-", "_", "<", ">", "=", "?", "*"}

DigitChars == <<"0", "1", "2", "3", "4", "5", "6", "7", "8", "9">>

Letters == {"a", "b", "c", "d", "e", "f", "g", "h", "i", "j", "k", "l", "m",
            "n", "o", "p", "q", "r", "s", "t", "u", "v", "w", "x", "y", "z",
            "A", "B", "C", "D", "E", "F", "G", "H", "I", "J", "K", "L", "M",
            "N", "O", "P", "Q", "R", "S", "T", "U", "V", "W", "X", "Y", "Z"}

\* what getchar returns at end of input; stored in a char buffer it is byte 0xFF
EOF == "<EOF>"

isspace(c) == c \in {" ", "\n", "\t", "\r"}
isdigit(c) == \E i \in 1..10 : DigitChars[i] = c
isalpha(c) == c \in Letters
isalnum(c) == isalpha(c) \/ isdigit(c)
IsSpecial(c) == c \in symbol_special_chars

DigitVal(c) == (CHOOSE i \in 1..10 : DigitChars[i] = c) - 1

(***************************************************************************)
(* Objects.  One record shape for every tag; the fields a tag does not use *)
(* are 0, as in the zero-initialised static atoms.                         *)
(***************************************************************************)
Obj(t) == [type |-> t, value |-> 0, name |-> <<>>, car |-> NULL, cdr |-> NULL,
           params |-> NULL, body |-> NULL, function |-> <<>>]

\* the process state threaded through the evaluator: heap, frames, output,
\* how the process stands, the value just returned, and the outcomes chosen
\* for undefined behaviour (ub.int: an uninitialised int, ub.ptr: an
\* uninitialised pointer, ub.fault: what an invalid access does)
Alloc(s, o) == [s EXCEPT !.heap = Append(s.heap, o), !.ret = Len(s.heap) + 1]

new_object(s, t) == Alloc(s, Obj(t))

cons(s, a, d) == Alloc(s, [Obj("CONS") EXCEPT !.car = a, !.cdr = d])

NewInt(s, v) == Alloc(s, [Obj("INT") EXCEPT !.value = v])

NewSymbol(s, n) == Alloc(s, [Obj("SYMBOL") EXCEPT !.name = n])

\* err(): print the message, exit(1)
err(s) == [s EXCEPT !.status = "error", !.ret = NULL]

\* an access through NULL or through a union member the object does not hold
Fault(s) == [s EXCEPT !.status = s.ub.fault, !.ret = NULL]

Return(s, v) == [s EXCEPT !.ret = v]

TypeOf(h, a) == h[a].type

\* list->type == OT_CONS ... ; list == Nil ? cnt : -1  (list is never NULL here)
RECURSIVE count(_, _)
count(h, list) ==
    IF TypeOf(h, list) = "CONS"
    THEN LET r == count(h, h[list].cdr) IN IF r = -1 THEN -1 ELSE r + 1
    ELSE IF list = Nil THEN 0 ELSE -1

(***************************************************************************)
(* Environment frames.  The hash table of a frame is a function from names *)
(* to addresses.                                                           *)
(***************************************************************************)
ht_insert(ht, name, v) ==
    [n \in (DOMAIN ht) \cup {name} |-> IF n = name THEN v ELSE ht[n]]

ht_lookup(ht, name) == IF name \in DOMAIN ht THEN ht[name] ELSE NULL

ht_create == [n \in {} |-> NULL]

env_create(s) ==
    [s EXCEPT !.envs = Append(s.envs, [ht |-> ht_create, parent |-> NULL]),
              !.ret = Len(s.envs) + 1]

Bind(s, env, name, v) ==
    [s EXCEPT !.envs[env].ht = ht_insert(s.envs[env].ht, name, v)]

RECURSIVE env_lookup(_, _, _)
env_lookup(s, env, name) ==
    IF name \in DOMAIN s.envs[env].ht
    THEN Return(s, ht_lookup(s.envs[env].ht, name))
    ELSE IF s.envs[env].parent # NULL
         THEN env_lookup(s, s.envs[env].parent, name)
         ELSE err(s)


(***************************************************************************)
(* Names of the symbols bound by env_init.                                 *)
(***************************************************************************)
n_Nil == <<"N", "i", "l">>
n_True == <<"T", "r", "u", "e">>
n_and == <<"a", "n", "d">>
n_car == <<"c", "a", "r">>
n_cdr == <<"c", "d", "r">>
n_cons == <<"c", "o", "n", "s">>
n_define == <<"d", "e", "f", "i", "n", "e">>
n_defun == <<"d", "e", "f", "u", "n">>
n_eq == <<"=">>
n_gt == <<">">>
n_if == <<"i", "f">>
n_lt == <<"<">>
n_lambda == <<"l", "a", "m", "b", "d", "a">>
n_minus == <<"-">>
n_multi == <<"*">>
n_obj_eq == <<"e", "q">>
n_or == <<"o", "r">>
n_plus == <<"+">>
n_println == <<"p", "r", "i", "n", "t", "l", "n">>
n_progn == <<"p", "r", "o", "g", "n">>
n_setcar == <<"s", "e", "t", "c", "a", "r">>
n_quote == <<"q", "u", "o", "t", "e">>
n_while == <<"w", "h", "i", "l", "e">>

\* the primitives in the order env_init adds them
PrimitiveNames ==
    <<n_and, n_car, n_cdr, n_cons, n_define, n_defun, n_eq, n_gt, n_if, n_lt,
      n_lambda, n_minus, n_multi, n_obj_eq, n_or, n_plus, n_println, n_progn,
      n_setcar, n_quote, n_while>>

(***************************************************************************)
(* print.  The result is the text written and how the process stands       *)
(* after it.  A pair whose chain of cdrs does not end in Nil makes the     *)
(* loop read the car of an object that is no pair.                         *)
(***************************************************************************)
RECURSIVE NatToText(_)
NatToText(n) ==
    IF n < 10 THEN <<DigitChars[n + 1]>>
    ELSE NatToText(n \div 10) \o <<DigitChars[(n % 10) + 1]>>

\* printf("%d", value)
IntToText(n) == IF n < 0 THEN <<"-">> \o NatToText(-n) ELSE NatToText(n)

RECURSIVE print(_, _, _)
RECURSIVE PrintElems(_, _, _)
print(h, o, ub) ==
    IF o = NULL THEN [text |-> <<>>, status |-> ub.fault]
    ELSE CASE h[o].type = "INT" -> [text |-> IntToText(h[o].value), status |-> "ok"]
           [] h[o].type = "SYMBOL" -> [text |-> h[o].name, status |-> "ok"]
           [] h[o].type = "CONS" ->
                LET r == PrintElems(h, o, ub) IN
                IF r.status = "ok"
                THEN [text |-> <<"(">> \o r.text \o <<")">>, status |-> "ok"]
                ELSE [text |-> <<"(">> \o r.text, status |-> r.status]
           [] h[o].type = "NIL" -> [text |-> n_Nil, status |-> "ok"]
           [] h[o].type = "TRUE" -> [text |-> n_True, status |-> "ok"]
           [] h[o].type = "PRIMITIVE" ->
                [text |-> <<"<", "p", "r", "i", "m", "i", "t", "i", "v", "e", ">">>,
                 status |-> "ok"]
           [] h[o].type = "FUNCTION" ->
                [text |-> <<"<", "f", "u", "n", "c", "t", "i", "o", "n", ">">>,
                 status |-> "ok"]
           [] OTHER -> [text |-> <<"u", "n", "h", "a", "n", "d", "l", "e", "d">>,
                        status |-> "ok"]

\* the for (;;) of case OT_CONS, entered with o the pair and re-entered with
\* o = o->cdr, whatever that is
PrintElems(h, o, ub) ==
    IF o = NULL \/ h[o].type # "CONS"
    THEN [text |-> <<>>, status |-> ub.fault]
    ELSE LET r1 == print(h, h[o].car, ub) IN
         IF r1.status # "ok" THEN r1
         ELSE IF h[o].cdr = Nil THEN r1
         ELSE LET r2 == PrintElems(h, h[o].cdr, ub) IN
              [text |-> r1.text \o <<" ">> \o r2.text, status |-> r2.status]

(***************************************************************************)
(* eval, eval_args, progn.  Every operator takes the process state s last  *)
(* and returns the state after it, the C return value in s.ret.  Once the  *)
(* process has stopped (s.status is not "ok") nothing more happens.        *)
(***************************************************************************)
Ok(s) == s.status = "ok"

RECURSIVE eval(_, _, _)
RECURSIVE apply(_, _, _, _)

RECURSIVE EvalArgsLoop(_, _, _, _, _)
EvalArgsLoop(env, o, first, last, s) ==
    IF ~Ok(s) THEN s
    ELSE IF o = Nil THEN Return(s, first)
    ELSE IF o = NULL \/ s.heap[o].type # "CONS" THEN Fault(s)
    ELSE LET s1 == eval(env, s.heap[o].car, s) IN
         IF ~Ok(s1) THEN s1
         ELSE LET s2 == cons(s1, s1.ret, Nil)
                  c == s2.ret
              IN  IF first = Nil
                  THEN EvalArgsLoop(env, s.heap[o].cdr, c, c, s2)
                  ELSE EvalArgsLoop(env, s.heap[o].cdr, first, c,
                                    [s2 EXCEPT !.heap[last].cdr = c])

eval_args(env, o, s) == EvalArgsLoop(env, o, Nil, Nil, s)

RECURSIVE PrognLoop(_, _, _, _)
PrognLoop(env, args, last, s) ==
    IF ~Ok(s) THEN s
    ELSE IF args = Nil THEN Return(s, last)
    ELSE IF args = NULL \/ s.heap[args].type # "CONS" THEN Fault(s)
    ELSE LET s1 == eval(env, s.heap[args].car, s) IN
         PrognLoop(env, s.heap[args].cdr, s1.ret, s1)

\* Object *last; is returned as it is when args is empty
progn(env, args, s) == PrognLoop(env, args, s.ub.ptr, s)

(***************************************************************************)
(* Primitives.                                                             *)
(***************************************************************************)
\* "ok", "err" (a parameter that is no symbol) or "fault"
RECURSIVE ParamsCheck(_, _)
ParamsCheck(h, p) ==
    IF h[p].type # "CONS" THEN "ok"
    ELSE IF h[p].car = NULL THEN "fault"
    ELSE IF h[h[p].car].type # "SYMBOL" THEN "err"
    ELSE IF h[p].cdr = NULL THEN "fault"
    ELSE ParamsCheck(h, h[p].cdr)

create_function(s, params, body) ==
    IF params = NULL THEN Fault(s)
    ELSE LET c == ParamsCheck(s.heap, params) IN
         IF c = "fault" THEN Fault(s)
         ELSE IF c = "err" THEN err(s)
         ELSE Alloc(s, [Obj("FUNCTION") EXCEPT !.params = params, !.body = body])

RECURSIVE AndLoop(_, _, _)
AndLoop(env, args, s) ==
    IF ~Ok(s) THEN s
    ELSE IF args = Nil THEN Return(s, True)
    ELSE LET s1 == eval(env, s.heap[args].car, s) IN
         IF Ok(s1) /\ s1.ret = Nil THEN Return(s1, Nil)
         ELSE AndLoop(env, s.heap[args].cdr, s1)

primitive_and(env, args, s) == AndLoop(env, args, s)

RECURSIVE OrLoop(_, _, _)
OrLoop(env, args, s) ==
    IF ~Ok(s) THEN s
    ELSE IF args = Nil THEN Return(s, Nil)
    ELSE LET s1 == eval(env, s.heap[args].car, s) IN
         IF Ok(s1) /\ s1.ret # Nil THEN Return(s1, True)
         ELSE OrLoop(env, s.heap[args].cdr, s1)

primitive_or(env, args, s) == OrLoop(env, args, s)

\* args->car->type reads through args->car: NULL when args is Nil
primitive_car(env, args, s) ==
    LET s1 == eval_args(env, args, s)
        a == s1.ret
    IN  IF ~Ok(s1) THEN s1
        ELSE IF s1.heap[a].car = NULL THEN Fault(s1)
        ELSE IF s1.heap[s1.heap[a].car].type # "CONS" \/ s1.heap[a].cdr # Nil
             THEN err(s1)
        ELSE Return(s1, s1.heap[s1.heap[a].car].car)

primitive_cdr(env, args, s) ==
    LET s1 == eval_args(env, args, s)
        a == s1.ret
    IN  IF ~Ok(s1) THEN s1
        ELSE IF s1.heap[a].car = NULL THEN Fault(s1)
        ELSE IF s1.heap[s1.heap[a].car].type # "CONS" \/ s1.heap[a].cdr # Nil
             THEN err(s1)
        ELSE Return(s1, s1.heap[s1.heap[a].car].cdr)

primitive_cons(env, args, s) ==
    IF count(s.heap, args) # 2 THEN err(s)
    ELSE LET s1 == eval_args(env, args, s)
             a == s1.ret
         IN  IF ~Ok(s1) THEN s1
             ELSE [s1 EXCEPT !.heap[a].cdr = s1.heap[s1.heap[a].cdr].car]

\* the frame of the chain from env that binds name, NULL when none does
RECURSIVE BindingFrame(_, _, _)
BindingFrame(es, env, name) ==
    IF name \in DOMAIN es[env].ht THEN env
    ELSE IF es[env].parent = NULL THEN NULL
    ELSE BindingFrame(es, es[env].parent, name)

\* primitive_define as it would be if it assigned to an existing outer binding
primitive_define_rebind(env, args, s) ==
    IF count(s.heap, args) # 2 THEN err(s)
    ELSE IF s.heap[args].car = NULL THEN Fault(s)
    ELSE IF s.heap[s.heap[args].car].type # "SYMBOL" THEN err(s)
    ELSE LET s1 == eval(env, s.heap[s.heap[args].cdr].car, s)
             name == s.heap[s.heap[args].car].name
         IN  IF ~Ok(s1) THEN s1
             ELSE LET bf == BindingFrame(s1.envs, env, name) IN
                  Return(Bind(s1, IF bf = NULL THEN env ELSE bf, name, s1.ret), s1.ret)

primitive_define(env, args, s) ==
    IF count(s.heap, args) # 2 THEN err(s)
    ELSE IF s.heap[args].car = NULL THEN Fault(s)
    ELSE IF s.heap[s.heap[args].car].type # "SYMBOL" THEN err(s)
    ELSE LET s1 == eval(env, s.heap[s.heap[args].cdr].car, s) IN
         IF ~Ok(s1) THEN s1
         ELSE Return(Bind(s1, env, s.heap[s.heap[args].car].name, s1.ret), s1.ret)

\* =, > and <: op is the comparison
Compare(env, args, s, op) ==
    IF count(s.heap, args) # 2 THEN err(s)
    ELSE LET s1 == eval_args(env, args, s)
             h == s1.heap
             x == h[s1.ret].car
             y == h[h[s1.ret].cdr].car
         IN  IF ~Ok(s1) THEN s1
             ELSE IF x = NULL THEN Fault(s1)
             ELSE IF h[x].type = "INT" /\ y = NULL THEN Fault(s1)
             ELSE IF h[x].type # "INT" \/ h[y].type # "INT" THEN err(s1)
             ELSE LET holds == CASE op = "=" -> h[x].value = h[y].value
                                 [] op = ">" -> h[x].value > h[y].value
                                 [] op = "<" -> h[x].value < h[y].value
                  IN  Return(s1, IF holds THEN True ELSE Nil)

primitive_eq(env, args, s) == Compare(env, args, s, "=")

primitive_gt(env, args, s) == Compare(env, args, s, ">")

primitive_lt(env, args, s) == Compare(env, args, s, "<")

primitive_if(env, args, s) ==
    LET cnt == count(s.heap, args) IN
    IF cnt # 2 /\ cnt # 3 THEN err(s)
    ELSE LET s1 == eval(env, s.heap[args].car, s)
         IN  IF ~Ok(s1) THEN s1
             ELSE IF s1.ret # Nil
                  THEN eval(env, s1.heap[s1.heap[args].cdr].car, s1)
             ELSE IF cnt = 2 THEN Return(s1, Nil)
             ELSE eval(env, s1.heap[s1.heap[s1.heap[args].cdr].cdr].car, s1)

\* args is Nil or a pair; Nil->car and Nil->cdr are NULL
primitive_lambda(env, args, s) ==
    create_function(s, s.heap[args].car, s.heap[args].cdr)

\* the loop of primitive_minus over the evaluated arguments; diff is only
\* assigned by the first pass, so with no argument at all the result holds
\* whatever the uninitialised int held
RECURSIVE MinusLoop(_, _, _, _)
MinusLoop(s, a, diff, first) ==
    IF a = Nil THEN NewInt(s, diff)
    ELSE LET x == s.heap[a].car IN
         IF x = NULL THEN Fault(s)
         ELSE IF s.heap[x].type # "INT" THEN err(s)
         ELSE IF first
              THEN IF s.heap[a].cdr = Nil THEN NewInt(s, -s.heap[x].value)
                   ELSE MinusLoop(s, s.heap[a].cdr, s.heap[x].value, FALSE)
              ELSE MinusLoop(s, s.heap[a].cdr, diff - s.heap[x].value, FALSE)

primitive_minus(env, args, s) ==
    LET s1 == eval_args(env, args, s) IN
    IF ~Ok(s1) THEN s1 ELSE MinusLoop(s1, s1.ret, s1.ub.int, TRUE)

RECURSIVE MultiLoop(_, _, _, _)
MultiLoop(s, a, total, first) ==
    IF a = Nil THEN NewInt(s, total)
    ELSE LET x == s.heap[a].car IN
         IF x = NULL THEN Fault(s)
         ELSE IF s.heap[x].type # "INT" THEN err(s)
         ELSE IF first THEN MultiLoop(s, s.heap[a].cdr, s.heap[x].value, FALSE)
              ELSE MultiLoop(s, s.heap[a].cdr, total * s.heap[x].value, FALSE)

primitive_multi(env, args, s) ==
    IF count(s.heap, args) < 2 THEN err(s)
    ELSE LET s1 == eval_args(env, args, s) IN
         IF ~Ok(s1) THEN s1 ELSE MultiLoop(s1, s1.ret, s1.ub.int, TRUE)

\* primitive_obj_eq as it would be if it compared contents instead of addresses
primitive_obj_eq_structural(env, args, s) ==
    IF count(s.heap, args) # 2 THEN err(s)
    ELSE LET s1 == eval_args(env, args, s) IN
         IF ~Ok(s1) THEN s1
         ELSE Return(s1, IF s1.heap[s1.heap[s1.ret].car] =
                            s1.heap[s1.heap[s1.heap[s1.ret].cdr].car]
                         THEN True ELSE Nil)

primitive_obj_eq(env, args, s) ==
    IF count(s.heap, args) # 2 THEN err(s)
    ELSE LET s1 == eval_args(env, args, s) IN
         IF ~Ok(s1) THEN s1
         ELSE Return(s1, IF s1.heap[s1.ret].car = s1.heap[s1.heap[s1.ret].cdr].car
                         THEN True ELSE Nil)

RECURSIVE PlusLoop(_, _, _)
PlusLoop(s, a, sum) ==
    IF a = Nil THEN NewInt(s, sum)
    ELSE LET x == s.heap[a].car IN
         IF x = NULL THEN Fault(s)
         ELSE IF s.heap[x].type # "INT" THEN err(s)
         ELSE PlusLoop(s, s.heap[a].cdr, sum + s.heap[x].value)

primitive_plus(env, args, s) ==
    LET s1 == eval_args(env, args, s) IN
    IF ~Ok(s1) THEN s1 ELSE PlusLoop(s1, s1.ret, 0)

primitive_println(env, args, s) ==
    IF count(s.heap, args) # 1 THEN err(s)
    ELSE LET s1 == eval(env, s.heap[args].car, s) IN
         IF ~Ok(s1) THEN s1
         ELSE LET r == print(s1.heap, s1.ret, s1.ub) IN
              IF r.status = "ok"
              THEN [s1 EXCEPT !.out = s1.out \o r.text \o <<"\n">>, !.ret = Nil]
              ELSE [s1 EXCEPT !.out = s1.out \o r.text, !.status = r.status,
                              !.ret = NULL]

primitive_progn(env, args, s) == progn(env, args, s)

\* primitive_setcar as it would be if it returned a changed copy of the pair
primitive_setcar_copy(env, args, s) ==
    LET s1 == eval_args(env, args, s)
        a == s1.ret
    IN  IF ~Ok(s1) THEN s1
        ELSE IF count(s1.heap, a) # 2 THEN err(s1)
        ELSE IF s1.heap[a].car = NULL THEN Fault(s1)
        ELSE IF s1.heap[s1.heap[a].car].type # "CONS" THEN err(s1)
        ELSE cons(s1, s1.heap[s1.heap[a].cdr].car, s1.heap[s1.heap[a].car].cdr)

\* the arguments are evaluated first, the check comes before the write
primitive_setcar(env, args, s) ==
    LET s1 == eval_args(env, args, s)
        a == s1.ret
    IN  IF ~Ok(s1) THEN s1
        ELSE IF count(s1.heap, a) # 2 THEN err(s1)
        ELSE IF s1.heap[a].car = NULL THEN Fault(s1)
        ELSE IF s1.heap[s1.heap[a].car].type # "CONS" THEN err(s1)
        ELSE Return([s1 EXCEPT !.heap[s1.heap[a].car].car =
                                    s1.heap[s1.heap[a].cdr].car],
                    s1.heap[a].car)

primitive_quote(env, args, s) ==
    IF count(s.heap, args) # 1 THEN err(s) ELSE Return(s, s.heap[args].car)

\* while (eval(env, args->car) != Nil) eval_args(env, args->cdr);
\* fuel is the number of passes the model still follows; a loop that has
\* used them all is still running
RECURSIVE WhileLoop(_, _, _, _)
WhileLoop(env, args, s, fuel) ==
    IF ~Ok(s) THEN s
    ELSE IF fuel = 0 THEN [s EXCEPT !.status = "running", !.ret = NULL]
    ELSE LET s1 == eval(env, s.heap[args].car, s) IN
         IF ~Ok(s1) THEN s1
         ELSE IF s1.ret = Nil THEN Return(s1, Nil)
         ELSE WhileLoop(env, args, eval_args(env, s1.heap[args].cdr, s1), fuel - 1)

\* primitive_while as it would be if it made a single pass
primitive_while_once(env, args, s) ==
    IF count(s.heap, args) < 2 THEN err(s)
    ELSE LET s1 == eval(env, s.heap[args].car, s) IN
         IF ~Ok(s1) THEN s1
         ELSE IF s1.ret = Nil THEN Return(s1, Nil)
         ELSE LET s2 == eval_args(env, s1.heap[args].cdr, s1) IN
              IF ~Ok(s2) THEN s2 ELSE Return(s2, Nil)

primitive_while(env, args, s) ==
    IF count(s.heap, args) < 2 THEN err(s) ELSE WhileLoop(env, args, s, MaxIter)

\* fn = primitive_lambda(env, args->cdr); args->cdr = cons(fn, Nil);
\* the write goes into the form that is being evaluated
primitive_defun(env, args, s) ==
    IF s.heap[args].cdr = NULL THEN Fault(s)
    ELSE LET s1 == primitive_lambda(env, s.heap[args].cdr, s) IN
         IF ~Ok(s1) THEN s1
         ELSE LET s2 == cons(s1, s1.ret, Nil) IN
              primitive_define(env, args, [s2 EXCEPT !.heap[args].cdr = s2.ret])

CallPrimitive(fn, env, args, s) ==
    CASE fn = n_and -> primitive_and(env, args, s)
      [] fn = n_car -> primitive_car(env, args, s)
      [] fn = n_cdr -> primitive_cdr(env, args, s)
      [] fn = n_cons -> primitive_cons(env, args, s)
      [] fn = n_define -> primitive_define(env, args, s)
      [] fn = n_defun -> primitive_defun(env, args, s)
      [] fn = n_eq -> primitive_eq(env, args, s)
      [] fn = n_gt -> primitive_gt(env, args, s)
      [] fn = n_if -> primitive_if(env, args, s)
      [] fn = n_lt -> primitive_lt(env, args, s)
      [] fn = n_lambda -> primitive_lambda(env, args, s)
      [] fn = n_minus -> primitive_minus(env, args, s)
      [] fn = n_multi -> primitive_multi(env, args, s)
      [] fn = n_obj_eq -> primitive_obj_eq(env, args, s)
      [] fn = n_or -> primitive_or(env, args, s)
      [] fn = n_plus -> primitive_plus(env, args, s)
      [] fn = n_println -> primitive_println(env, args, s)
      [] fn = n_progn -> primitive_progn(env, args, s)
      [] fn = n_setcar -> primitive_setcar(env, args, s)
      [] fn = n_quote -> primitive_quote(env, args, s)
      [] fn = n_while -> primitive_while(env, args, s)

(***************************************************************************)
(* apply and eval.                                                         *)
(***************************************************************************)
\* for (; params->type == OT_CONS; params = params->cdr, args = args->cdr)
\*     ht_insert(env_child->ht, params->car->name, args->car);
\* args runs off the end of a list that is shorter than params: Nil->car and
\* Nil->cdr are NULL, and the next pass reads through NULL
RECURSIVE BindParams(_, _, _, _)
BindParams(s, child, params, args) ==
    IF s.heap[params].type # "CONS" THEN s
    ELSE IF args = NULL THEN Fault(s)
    ELSE BindParams(Bind(s, child, s.heap[s.heap[params].car].name, s.heap[args].car),
                    child, s.heap[params].cdr, s.heap[args].cdr)

\* apply as it would be if it chained every new frame to the root frame
apply_root_parent(env, o, args, s) ==
    IF s.heap[o].type = "PRIMITIVE"
    THEN CallPrimitive(s.heap[o].function, env, args, s)
    ELSE IF s.heap[o].type = "FUNCTION"
    THEN LET s1 == eval_args(env, args, s) IN
         IF ~Ok(s1) THEN s1
         ELSE LET s2 == env_create(s1)
                  env_child == s2.ret
                  s3 == [s2 EXCEPT !.envs[env_child].parent = 1]
                  s4 == BindParams(s3, env_child, s.heap[o].params, s1.ret)
              IN  IF ~Ok(s4) THEN s4 ELSE progn(env_child, s.heap[o].body, s4)
    ELSE Return(s, NULL)

apply(env, o, args, s) ==
    IF s.heap[o].type = "PRIMITIVE"
    THEN CallPrimitive(s.heap[o].function, env, args, s)
    ELSE IF s.heap[o].type = "FUNCTION"
    THEN LET s1 == eval_args(env, args, s) IN
         IF ~Ok(s1) THEN s1
         ELSE LET s2 == env_create(s1)
                  env_child == s2.ret
                  s3 == [s2 EXCEPT !.envs[env_child].parent = env]
                  s4 == BindParams(s3, env_child, s.heap[o].params, s1.ret)
              IN  IF ~Ok(s4) THEN s4 ELSE progn(env_child, s.heap[o].body, s4)
    ELSE Return(s, NULL)

eval(env, o, s) ==
    IF ~Ok(s) THEN s
    ELSE IF o = NULL THEN Return(s, NULL)
    ELSE CASE s.heap[o].type \in {"INT", "FUNCTION", "TRUE", "NIL"} -> Return(s, o)
           [] s.heap[o].type = "CONS" ->
                LET s1 == eval(env, s.heap[o].car, s)
                    fn == s1.ret
                    args == s1.heap[o].cdr
                IN  IF ~Ok(s1) THEN s1
                    ELSE IF fn = NULL THEN Fault(s1)
                    ELSE IF s1.heap[fn].type \notin {"PRIMITIVE", "FUNCTION"} THEN err(s1)
                    ELSE IF args = NULL THEN Fault(s1)
                    ELSE IF s1.heap[args].type \notin {"NIL", "CONS"} THEN err(s1)
                    ELSE apply(env, fn, args, s1)
           [] s.heap[o].type = "SYMBOL" -> env_lookup(s, env, s.heap[o].name)
           [] OTHER -> Return(s, NULL)

(***************************************************************************)
(* env_init: the root frame, with Nil, True and one PRIMITIVE object per    *)
(* primitive.                                                              *)
(***************************************************************************)
InitHeap ==
    <<Obj("TRUE"), Obj("NIL")>> \o
    [i \in 1..Len(PrimitiveNames) |->
        [Obj("PRIMITIVE") EXCEPT !.function = PrimitiveNames[i]]]

PrimitiveAddr(name) == 2 + (CHOOSE i \in 1..Len(PrimitiveNames) : PrimitiveNames[i] = name)

env_init ==
    [ht |-> [n \in {n_Nil, n_True} \cup {PrimitiveNames[i] : i \in 1..Len(PrimitiveNames)} |->
                IF n = n_Nil THEN Nil
                ELSE IF n = n_True THEN True
                ELSE PrimitiveAddr(n)],
     parent |-> NULL]

(***************************************************************************)
(* The reader, one step per character read.  rstack holds the calls of     *)
(* read, read_number, read_symbol, read_quoted_symbol, read_list and       *)
(* read_quote that are in progress, the innermost last; rpend says that    *)
(* the innermost call has returned rret to the one below it.               *)
(***************************************************************************)
Frame(fn) == [fn |-> fn, v |-> 0, isPositive |-> FALSE, buf |-> <<>>,
              first |-> Nil, last |-> Nil, o |-> NULL]

Top == rstack[Len(rstack)]

Pop == SubSeq(rstack, 1, Len(rstack) - 1)

ReplaceTop(f) == Pop \o <<f>>

\* getchar() at end of input returns EOF
peek == IF input = <<>> THEN EOF ELSE Head(input)

\* the character after the next one
peek2 == IF Len(input) < 2 THEN EOF ELSE input[2]

Reading == pc \in {"read", "reread"} /\ status = "ok"

InCall(fn) == Reading /\ ~rpend /\ rstack # <<>> /\ Top.fn = fn

\* the callee returns v to the call below it
ReturnTo(v) == rstack' = Pop /\ rpend' = TRUE /\ rret' = v

\* read(): one pass of its for (;;).  read_number is declared without
\* parameters and called without an argument for a number that starts with
\* a digit, so its isPositive holds whatever the caller left there.
Read ==
    /\ InCall("read")
    /\ LET c == peek IN
       IF isspace(c)
       THEN /\ input' = Tail(input)
            /\ UNCHANGED <<heap, status, rstack, rpend, rret>>
       ELSE IF c = EOF
       THEN /\ ReturnTo(NULL)
            /\ UNCHANGED <<heap, status, input>>
       ELSE IF isdigit(c)
       THEN /\ \E garbage \in BOOLEAN :
                 rstack' = ReplaceTop([Frame("read_number") EXCEPT !.isPositive = garbage])
            /\ UNCHANGED <<heap, status, input, rpend, rret>>
       ELSE IF c = "-" /\ isdigit(peek2)
       THEN /\ input' = Tail(input)
            /\ rstack' = ReplaceTop(Frame("read_number"))
            /\ UNCHANGED <<heap, status, rpend, rret>>
       ELSE IF isalpha(c) \/ IsSpecial(c)
       THEN /\ rstack' = ReplaceTop(Frame("read_symbol"))
            /\ UNCHANGED <<heap, status, input, rpend, rret>>
       ELSE IF c = "\""
       THEN /\ input' = Tail(input)
            /\ rstack' = ReplaceTop(Frame("read_quoted_symbol"))
            /\ UNCHANGED <<heap, status, rpend, rret>>
       ELSE IF c = "("
       THEN /\ input' = Tail(input)
            /\ rstack' = ReplaceTop(Frame("read_list"))
            /\ UNCHANGED <<heap, status, rpend, rret>>
       ELSE IF c = "'"
       THEN /\ input' = Tail(input)
            /\ heap' = Append(heap, [Obj("SYMBOL") EXCEPT !.name = n_quote])
            /\ rstack' = ReplaceTop([Frame("read_quote") EXCEPT !.o = Len(heap) + 1])
                            \o <<Frame("read")>>
            /\ UNCHANGED <<status, rpend, rret>>
       ELSE /\ status' = "error"
            /\ UNCHANGED <<heap, input, rstack, rpend, rret>>
    /\ UNCHANGED <<envs, out, pc, job, result, forms, idx, out1, out2, call>>

read_number ==
    /\ InCall("read_number")
    /\ IF isdigit(peek)
       THEN /\ rstack' = ReplaceTop([Top EXCEPT !.v = Top.v * 10 + DigitVal(peek)])
            /\ input' = Tail(input)
            /\ UNCHANGED <<heap, rpend, rret>>
       ELSE /\ heap' = Append(heap, [Obj("INT") EXCEPT
                                 !.value = IF Top.isPositive THEN Top.v ELSE -Top.v])
            /\ ReturnTo(Len(heap) + 1)
            /\ UNCHANGED input
    /\ UNCHANGED <<envs, out, status, pc, job, result, forms, idx, out1, out2, call>>

read_symbol ==
    /\ InCall("read_symbol")
    /\ IF isalnum(peek) \/ IsSpecial(peek)
       THEN IF Len(Top.buf) >= SYMBOL_MAX_LENGTH
            THEN /\ status' = "error"
                 /\ UNCHANGED <<heap, input, rstack, rpend, rret>>
            ELSE /\ rstack' = ReplaceTop([Top EXCEPT !.buf = Append(Top.buf, peek)])
                 /\ input' = Tail(input)
                 /\ UNCHANGED <<heap, status, rpend, rret>>
       ELSE /\ heap' = Append(heap, [Obj("SYMBOL") EXCEPT !.name = Top.buf])
            /\ ReturnTo(Len(heap) + 1)
            /\ UNCHANGED <<status, input>>
    /\ UNCHANGED <<envs, out, pc, job, result, forms, idx, out1, out2, call>>

\* while ((c = getchar()) != '"'): at end of input c is EOF, which is stored
\* like any other character until the buffer is full
read_quoted_symbol ==
    /\ InCall("read_quoted_symbol")
    /\ input' = IF input = <<>> THEN input ELSE Tail(input)
    /\ IF peek = "\""
       THEN /\ heap' = Append(heap, [Obj("SYMBOL") EXCEPT !.name = Top.buf])
            /\ ReturnTo(Len(heap) + 1)
            /\ UNCHANGED status
       ELSE IF Len(Top.buf) >= SYMBOL_MAX_LENGTH
            THEN /\ status' = "error"
                 /\ UNCHANGED <<heap, rstack, rpend, rret>>
            ELSE /\ rstack' = ReplaceTop([Top EXCEPT !.buf = Append(Top.buf, peek)])
                 /\ UNCHANGED <<heap, status, rpend, rret>>
    /\ UNCHANGED <<envs, out, pc, job, result, forms, idx, out1, out2, call>>

\* read_list(): one getchar of its for (;;); anything that is neither white
\* space nor ')' is pushed back (ungetc of EOF does nothing) and read() is called
read_list ==
    /\ InCall("read_list")
    /\ IF isspace(peek)
       THEN /\ input' = Tail(input)
            /\ UNCHANGED <<rstack, rpend, rret>>
       ELSE IF peek = ")"
       THEN /\ input' = Tail(input)
            /\ ReturnTo(Top.first)
       ELSE /\ rstack' = Append(rstack, Frame("read"))
            /\ UNCHANGED <<input, rpend, rret>>
    /\ UNCHANGED <<heap, envs, out, status, pc, job, result, forms, idx, out1, out2, call>>

\* first = last = cons(read(), Nil)  or  last = last->cdr = cons(read(), Nil),
\* with whatever read() returned
read_list_append ==
    /\ Reading /\ rpend /\ rstack # <<>> /\ Top.fn = "read_list"
    /\ Len(heap) < MaxHeap
    /\ LET c == Len(heap) + 1
           cell == [Obj("CONS") EXCEPT !.car = rret, !.cdr = Nil]
       IN  IF Top.first = Nil
           THEN /\ heap' = Append(heap, cell)
                /\ rstack' = ReplaceTop([Top EXCEPT !.first = c, !.last = c])
           ELSE /\ heap' = [Append(heap, cell) EXCEPT ![Top.last].cdr = c]
                /\ rstack' = ReplaceTop([Top EXCEPT !.last = c])
    /\ rpend' = FALSE
    /\ UNCHANGED <<envs, out, status, input, rret, pc, job, result, forms, idx,
                   out1, out2, call>>

\* return cons(o, cons(read(), Nil));
read_quote ==
    /\ Reading /\ rpend /\ rstack # <<>> /\ Top.fn = "read_quote"
    /\ heap' = heap \o <<[Obj("CONS") EXCEPT !.car = rret, !.cdr = Nil],
                         [Obj("CONS") EXCEPT !.car = Top.o, !.cdr = Len(heap) + 1]>>
    /\ ReturnTo(Len(heap) + 2)
    /\ UNCHANGED <<envs, out, status, input, pc, job, result, forms, idx, out1, out2, call>>

\* the outermost read() returns to its caller
ReadReturn ==
    /\ Reading /\ rpend /\ rstack = <<>>
    /\ rpend' = FALSE
    /\ result' = rret
    /\ pc' = IF pc = "read" THEN "have" ELSE "reread_done"
    /\ call' = [op |-> "read", env |-> NULL, arg |-> NULL, heap0 |-> heap, envs0 |-> envs]
    /\ UNCHANGED <<heap, envs, out, status, input, rstack, rret, job, forms, idx,
                   out1, out2>>

(***************************************************************************)
(* Parsed forms.  A form handed to eval is the object graph read builds    *)
(* for it: a fresh INT or SYMBOL per atom, a chain of pairs ending in the  *)
(* Nil atom per list, () the Nil atom itself.                              *)
(***************************************************************************)
I(n) == [k |-> "int", v |-> n]
S(c) == [k |-> "sym", name |-> <<c>>]
SN(name) == [k |-> "sym", name |-> name]
L(xs) == [k |-> "list", xs |-> xs]

RECURSIVE Build(_, _)
RECURSIVE BuildList(_, _)
Build(sx, s) ==
    CASE sx.k = "int" -> NewInt(s, sx.v)
      [] sx.k = "sym" -> NewSymbol(s, sx.name)
      [] sx.k = "list" -> BuildList(sx.xs, s)

BuildList(xs, s) ==
    IF xs = <<>> THEN Return(s, Nil)
    ELSE LET s1 == Build(Head(xs), s) IN
         IF s1.ret = NULL THEN s1
         ELSE LET s2 == BuildList(Tail(xs), s1) IN
              IF s2.ret = NULL THEN s2 ELSE cons(s2, s1.ret, s2.ret)

\* the forms of a program, built one after the other: the heap and their addresses
RECURSIVE BuildAll(_, _, _)
BuildAll(sxs, s, acc) ==
    IF sxs = <<>> THEN [heap |-> s.heap, forms |-> acc]
    ELSE LET s1 == Build(Head(sxs), s) IN
         IF s1.ret = NULL THEN [heap |-> s1.heap, forms |-> acc]
         ELSE BuildAll(Tail(sxs), s1, Append(acc, s1.ret))

Define(name, e) == L(<<SN(n_define), name, e>>)
Lambda(params, body) == L(<<SN(n_lambda), L(params)>> \o body)
Defun(name, params, body) == L(<<SN(n_defun), name, L(params)>> \o body)
Quote(e) == L(<<SN(n_quote), e>>)
Cons(a, d) == L(<<SN(n_cons), a, d>>)
Minus1(e) == L(<<SN(n_minus), e, I(1)>>)
Plus1(e) == L(<<SN(n_plus), e, I(1)>>)
Gt0(e) == L(<<SN(n_gt), e, I(0)>>)

\* (while (> x 0) (define x (- x 1)))
Countdown == L(<<SN(n_while), Gt0(S("x")), Define(S("x"), Minus1(S("x")))>>)

\* calls with an argument count outside the primitive's arity
ArityForms ==
    << L(<<SN(n_minus)>>),
       L(<<SN(n_car)>>),
       L(<<SN(n_car), Quote(L(<<I(1)>>)), Quote(L(<<I(2)>>))>>),
       L(<<SN(n_cdr)>>),
       L(<<SN(n_cdr), Quote(L(<<I(1)>>)), Quote(L(<<I(2)>>))>>),
       L(<<SN(n_cons), I(1)>>),
       L(<<SN(n_cons), I(1), I(2), I(3)>>),
       L(<<SN(n_define), S("x")>>),
       L(<<SN(n_define), S("x"), I(1), I(2)>>),
       L(<<SN(n_defun)>>),
       L(<<SN(n_defun), S("f")>>),
       L(<<SN(n_eq), I(1)>>),
       L(<<SN(n_gt), I(1)>>),
       L(<<SN(n_lt), I(1), I(2), I(3)>>),
       L(<<SN(n_obj_eq), I(1)>>),
       L(<<SN(n_if)>>),
       L(<<SN(n_if), I(1)>>),
       L(<<SN(n_if), I(1), I(2), I(3), I(4)>>),
       L(<<SN(n_lambda)>>),
       L(<<SN(n_multi), I(2)>>),
       L(<<SN(n_multi)>>),
       L(<<SN(n_println)>>),
       L(<<SN(n_println), I(1), I(2)>>),
       L(<<SN(n_setcar), Quote(L(<<I(1)>>))>>),
       L(<<SN(n_quote)>>),
       L(<<SN(n_quote), S("a"), S("b")>>),
       L(<<SN(n_while)>>),
       L(<<SN(n_while), Gt0(I(1))>> ) >>

\* eq forms, each with the answer of an identity comparison
EqForms ==
    << [form |-> L(<<SN(n_obj_eq), SN(n_Nil), SN(n_Nil)>>), same |-> TRUE],
       [form |-> L(<<SN(n_obj_eq), L(<<>>), L(<<>>)>>), same |-> TRUE],
       [form |-> L(<<SN(n_obj_eq), L(<<>>), SN(n_Nil)>>), same |-> TRUE],
       [form |-> L(<<SN(n_obj_eq), SN(n_True), SN(n_True)>>), same |-> TRUE],
       [form |-> L(<<SN(n_obj_eq), L(<<SN(n_eq), I(1), I(1)>>), SN(n_True)>>), same |-> TRUE],
       [form |-> L(<<SN(n_obj_eq), L(<<SN(n_lt), I(1), I(0)>>), L(<<>>)>>), same |-> TRUE],
       [form |-> L(<<SN(n_obj_eq), SN(n_car), SN(n_car)>>), same |-> TRUE],
       [form |-> L(<<SN(n_obj_eq), I(1), I(1)>>), same |-> FALSE],
       [form |-> L(<<SN(n_obj_eq), Quote(S("a")), Quote(S("a"))>>), same |-> FALSE],
       [form |-> L(<<SN(n_obj_eq), Cons(I(1), I(2)), Cons(I(1), I(2))>>), same |-> FALSE],
       [form |-> L(<<SN(n_obj_eq), Quote(L(<<>>)), Cons(I(1), L(<<>>))>>), same |-> FALSE],
       [form |-> L(<<SN(n_obj_eq), SN(n_Nil), SN(n_True)>>), same |-> FALSE] >>

\* forms whose value is built only from integers, symbols, Nil, True and pairs
ValueForms ==
    << Quote(L(<<S("a"), L(<<S("b"), I(-3)>>), S("c")>>)),
       Quote(L(<<SN(n_Nil), SN(n_True)>>)),
       Cons(SN(n_Nil), L(<<>>)),
       Cons(SN(n_True), Quote(L(<<S("a")>>))),
       I(-12),
       Quote(SN(<<"x", "-", "1">>)),
       Cons(I(-1), I(-2)),
       Cons(Quote(S("a")), SN(n_True)),
       I(7),
       Quote(L(<<S("a"), I(4)>>)) >>

\* samples of the primitives, each with the integer it evaluates to
SampleForms ==
    << [form |-> L(<<SN(n_plus), I(1), I(2), I(3)>>), v |-> 6],
       [form |-> L(<<SN(n_plus)>>), v |-> 0],
       [form |-> L(<<SN(n_minus), I(5)>>), v |-> -5],
       [form |-> L(<<SN(n_minus), I(10), I(3), I(2)>>), v |-> 5],
       [form |-> L(<<SN(n_car), Cons(I(1), I(2))>>), v |-> 1],
       [form |-> L(<<SN(n_cdr), Cons(I(1), I(2))>>), v |-> 2],
       [form |-> L(<<SN(n_if), SN(n_Nil), I(1), I(2)>>), v |-> 2],
       [form |-> L(<<SN(n_if), SN(n_True), I(1)>>), v |-> 1],
       [form |-> L(<<SN(n_multi), I(2), I(3), I(4)>>), v |-> 24],
       [form |-> L(<<SN(n_if), L(<<SN(n_and), SN(n_True), L(<<SN(n_lt), I(1), I(2)>>)>>),
                     I(1), I(2)>>), v |-> 1],
       [form |-> L(<<SN(n_if), L(<<SN(n_or), SN(n_Nil), L(<<SN(n_eq), I(1), I(2)>>)>>),
                     I(1), I(2)>>), v |-> 2],
       [form |-> L(<<SN(n_progn), L(<<SN(n_println), Quote(L(<<S("a"), I(1)>>))>>), I(3)>>),
        v |-> 3] >>

\* calls of setcar that must be refused; p is bound to a pair
SetcarErrForms ==
    << L(<<SN(n_setcar), I(5), I(1)>>),
       L(<<SN(n_setcar), S("p")>>),
       L(<<SN(n_setcar)>>),
       L(<<SN(n_setcar), S("p"), I(1), I(2)>>),
       L(<<SN(n_setcar), Quote(S("p")), I(1)>>),
       L(<<SN(n_setcar), SN(n_Nil), S("p")>>) >>

DefineXF == <<Define(S("x"), I(5)),
              Define(S("f"), Lambda(<<S("n")>>, <<L(<<SN(n_plus), S("n"), S("x")>>)>>))>>

DefinePQR == <<Define(S("p"), Cons(I(1), I(2))),
               Define(S("q"), S("p")),
               Define(S("r"), Cons(S("p"), S("p")))>>

\* the programs that are evaluated, form by form, in the root frame
Program(k, a) ==
    CASE k = 1 -> DefineXF \o <<L(<<S("f"), I(10)>>)>>
      [] k = 2 -> DefineXF \o
                  <<Define(S("g"), Lambda(<<S("x")>>, <<L(<<S("f"), Plus1(S("x"))>>)>>)),
                    L(<<S("g"), I(100)>>)>>
      [] k = 3 -> <<Define(S("x"), I(5)),
                    Define(S("m"), Lambda(<<S("x")>>,
                        <<Lambda(<<S("n")>>, <<L(<<SN(n_plus), S("n"), S("x")>>)>>)>>)),
                    Define(S("h"), L(<<S("m"), I(1)>>)),
                    L(<<S("h"), I(10)>>)>>
      [] k = 4 -> <<Define(S("x"), I(5)),
                    Define(S("f"), Lambda(<<>>, <<Define(S("x"), I(7))>>)),
                    L(<<S("f")>>)>>
      [] k = 5 -> <<Define(S("x"), I(5)),
                    Define(S("f"), Lambda(<<>>, <<Define(S("x"), I(7))>>)),
                    Define(S("g"), Lambda(<<S("y")>>, <<L(<<S("f")>>), S("x")>>)),
                    L(<<S("g"), I(1)>>)>>
      [] k = 6 -> <<Define(S("f"), Lambda(<<S("x")>>, <<Define(S("x"), I(7)), S("x")>>)),
                    L(<<S("f"), I(1)>>)>>
      [] k = 7 -> <<Define(S("x"), I(a)), Countdown>>
      [] k = 8 -> <<Define(S("x"), I(a)), Define(S("c"), I(0)), Define(S("k"), I(0)),
                    L(<<SN(n_while),
                        L(<<SN(n_progn), Define(S("c"), Plus1(S("c"))), Gt0(S("x"))>>),
                        Define(S("x"), Minus1(S("x"))),
                        Define(S("k"), Plus1(S("k")))>>)>>
      [] k = 9 -> <<Define(S("x"), I(9)),
                    Define(S("f"), Lambda(<<S("x")>>, <<Countdown>>)),
                    L(<<S("f"), I(a)>>)>>
      [] k = 10 -> <<Define(S("i"), I(2)),
                     L(<<SN(n_while), Gt0(S("i")),
                         Defun(S("f"), <<S("n")>>, <<S("n")>>),
                         Define(S("i"), Minus1(S("i")))>>)>>
      [] k = 11 -> <<Define(S("g"), Lambda(<<>>, <<Defun(S("f"), <<S("n")>>, <<S("n")>>)>>)),
                     L(<<S("g")>>),
                     L(<<S("g")>>)>>
      [] k = 12 -> <<Defun(S("f"), <<S("n")>>, <<S("n")>>), L(<<S("f"), I(4)>>)>>
      [] k = 13 -> DefinePQR \o <<L(<<SN(n_setcar), S("p"), I(9)>>)>>
      [] k = 14 -> DefinePQR \o <<L(<<SN(n_setcar), S("p"), I(9)>>),
                                  L(<<SN(n_car), L(<<SN(n_car), S("r")>>)>>)>>
      [] k = 15 -> DefinePQR \o <<SetcarErrForms[a]>>
      [] k = 16 -> <<ArityForms[a]>>
      [] k = 17 -> <<EqForms[a].form>>
      [] k = 18 -> <<Define(S("p"), Cons(I(1), I(2))), L(<<SN(n_obj_eq), S("p"), S("p")>>)>>
      [] k = 19 -> <<ValueForms[a]>>
      [] k = 20 -> <<SampleForms[a].form>>
      [] k = 21 -> <<Define(S("d"), Lambda(<<S("a"), S("b")>>,
                                           <<L(<<SN(n_minus), S("a"), S("b")>>)>>)),
                     Define(S("b"), I(7)),
                     L(<<S("d"), S("b"), I(2)>>)>>

\* the values of a each program is run with
ParamSets ==
    << {0}, {0}, {0}, {0}, {0}, {0}, 0..MaxN, 0..MaxN, 0..MaxN, {0}, {0}, {0},
       {0}, {0}, 1..Len(SetcarErrForms), 1..Len(ArityForms), 1..Len(EqForms),
       {0}, 1..Len(ValueForms), 1..Len(SampleForms), {0} >>

NumPrograms == Len(ParamSets)

ParamSet(k) == ParamSets[k]

\* the texts that are read
Texts ==
    << <<"(", ")">>,
       <<"(", "a", " ", "b", ")">>,
       <<"'", "a">>,
       <<"\"", "a", " ", "b", "\"">>,
       <<"-", "1", "2">>,
       <<"7">>,
       <<"(">>,
       <<"(", "a">>,
       <<"(", "(", "a", ")", " ", "b">>,
       <<"#">>,
       <<"\"", "a">>,
       <<"(", "a", " ", "(", "b", " ", "-", "3", ")", "\n", "c", ")">>,
       <<>>,
       <<"\"", "\"">>,
       <<" ", "(", " ", ")", " ">>,
       <<"(", "x", "-", "1", " ", "'", "(", ")", " ", "N", "i", "l", ")">> >>

\* the outcomes of undefined behaviour a step may meet
UB == [int : {-1, 41}, ptr : {NULL, Nil}, fault : {"segfault", "undefined"}]

St(ub) == [heap |-> heap, envs |-> envs, out |-> out, status |-> status,
           ret |-> NULL, ub |-> ub]

NoCall == [op |-> "none", env |-> NULL, arg |-> NULL, heap0 |-> <<>>, envs0 |-> <<>>]

InitText ==
    \E k \in 1..Len(Texts) :
       /\ job = [kind |-> "text", k |-> k, a |-> 0]
       /\ heap = InitHeap
       /\ input = Texts[k]
       /\ rstack = <<Frame("read")>>
       /\ pc = "read"
       /\ forms = <<>>

\* a program as it stands in memory once it is parsed
Parsed(k, a) == BuildAll(Program(k, a), [heap |-> InitHeap, ret |-> NULL], <<>>)

InitEval ==
    \E k \in 1..NumPrograms :
       \E a \in ParamSet(k) :
          LET b == Parsed(k, a) IN
          /\ job = [kind |-> "eval", k |-> k, a |-> a]
          /\ heap = b.heap
          /\ forms = b.forms
          /\ input = <<>>
          /\ rstack = <<>>
          /\ pc = "eval"

Init ==
    /\ InitText \/ InitEval
    /\ envs = <<env_init>>
    /\ out = <<>>
    /\ status = "ok"
    /\ rpend = FALSE
    /\ rret = NULL
    /\ result = NULL
    /\ idx = 1
    /\ out1 = <<>>
    /\ out2 = <<>>
    /\ call = NoCall

(***************************************************************************)
(* The callers of eval and print.                                          *)
(***************************************************************************)
Finished == pc = "eval" /\ idx > Len(forms)

\* eval(env, o) on the next form of the program, in the root frame
EvalForm ==
    /\ pc = "eval" /\ status = "ok" /\ idx <= Len(forms)
    /\ \E ub \in UB :
          LET s == eval(1, forms[idx], St(ub)) IN
          /\ heap' = s.heap
          /\ envs' = s.envs
          /\ out' = s.out
          /\ status' = s.status
          /\ result' = s.ret
    /\ idx' = idx + 1
    /\ call' = [op |-> "eval", env |-> 1, arg |-> forms[idx], heap0 |-> heap, envs0 |-> envs]
    /\ UNCHANGED <<input, rstack, rpend, rret, pc, job, forms, out1, out2>>

\* eval(env, o) on an object that is a value already, in any frame
EvalObject ==
    /\ Finished /\ status = "ok"
    /\ \E o \in 1..Len(heap), env \in 1..Len(envs), ub \in UB :
          /\ heap[o].type \in {"INT", "PRIMITIVE", "FUNCTION", "NIL", "TRUE"}
          /\ LET s == eval(env, o, St(ub)) IN
             /\ heap' = s.heap
             /\ envs' = s.envs
             /\ out' = s.out
             /\ status' = s.status
             /\ result' = s.ret
          /\ call' = [op |-> "evalobj", env |-> env, arg |-> o, heap0 |-> heap, envs0 |-> envs]
    /\ pc' = "done"
    /\ UNCHANGED <<input, rstack, rpend, rret, job, forms, idx, out1, out2>>

\* print(v) of the value just read or evaluated
PrintValue ==
    /\ pc = "have" \/ Finished
    /\ status = "ok" /\ result # NULL
    /\ \E ub \in UB :
          LET r == print(heap, result, ub) IN
          /\ out1' = r.text
          /\ status' = r.status
    /\ pc' = "printed"
    /\ call' = [op |-> "print", env |-> NULL, arg |-> result, heap0 |-> heap, envs0 |-> envs]
    /\ UNCHANGED <<heap, envs, out, input, rstack, rpend, rret, job, result, forms, idx, out2>>

\* read() on the text print wrote
Reread ==
    /\ pc = "printed" /\ status = "ok"
    /\ input' = out1
    /\ rstack' = <<Frame("read")>>
    /\ rpend' = FALSE
    /\ pc' = "reread"
    /\ UNCHANGED <<heap, envs, out, status, rret, job, result, forms, idx, out1, out2, call>>

\* print() of what that read() returned
PrintAgain ==
    /\ pc = "reread_done" /\ status = "ok"
    /\ \E ub \in UB :
          LET r == print(heap, result, ub) IN
          /\ out2' = r.text
          /\ status' = r.status
    /\ pc' = "final"
    /\ call' = [op |-> "print", env |-> NULL, arg |-> result, heap0 |-> heap, envs0 |-> envs]
    /\ UNCHANGED <<heap, envs, out, input, rstack, rpend, rret, job, result, forms, idx, out1>>

Next ==
    \/ Read
    \/ read_number
    \/ read_symbol
    \/ read_quoted_symbol
    \/ read_list
    \/ read_list_append
    \/ read_quote
    \/ ReadReturn
    \/ EvalForm
    \/ EvalObject
    \/ PrintValue
    \/ Reread
    \/ PrintAgain

Spec == Init /\ [][Next]_vars

(***************************************************************************)
(* What the claims are stated with.                                        *)
(***************************************************************************)
\* program k is being run
Prog(k) == job.kind = "eval" /\ job.k = k

\* eval has been called on the last form of the program
LastRun == pc = "eval" /\ idx > Len(forms)

IsInt(a, v) == a # NULL /\ heap[a].type = "INT" /\ heap[a].value = v

\* the binding of a one-letter name in frame e
In(e, c) == envs[e].ht[<<c>>]

Binds(e, c) == <<c>> \in DOMAIN envs[e].ht

\* the form eval was last called on is the application of a closure bound in
\* the root frame
ClosureCall ==
    /\ call.op = "eval"
    /\ call.heap0[call.arg].type = "CONS"
    /\ LET head == call.heap0[call.heap0[call.arg].car] IN
       /\ head.type = "SYMBOL"
       /\ head.name \in DOMAIN call.envs0[1].ht
       /\ call.heap0[call.envs0[1].ht[head.name]].type = "FUNCTION"

\* the objects and frames that existed before the last call are as they were
OldHeapKept == \A a \in DOMAIN call.heap0 : heap[a] = call.heap0[a]

OldFramesKept == \A e \in DOMAIN call.envs0 : envs[e] = call.envs0[e]

\* the evaluator's own samples: not a claim, a check of the model
SamplesOK ==
    (Prog(20) /\ LastRun) => status = "ok" /\ IsInt(result, SampleForms[job.a].v)

(***************************************************************************)
(* C1.  A closure is applied in a fresh frame whose parent is the caller's *)
(* current frame, not the frame the closure was made in: the parameters    *)
(* are bound in order to the arguments evaluated in the caller's frame,    *)
(* and a free variable of the body is the innermost binding the caller     *)
(* sees.  (f 10) is 15 at top level, and a caller that shadows x makes f   *)
(* see the caller's x.                                                     *)
(***************************************************************************)
ThmC1 ==
    /\ \A e \in DOMAIN envs : e > 1 => envs[e].parent \in 1..(e - 1)
    /\ (ClosureCall /\ status = "ok") =>
          /\ Len(envs) > Len(call.envs0)
          /\ envs[Len(call.envs0) + 1].parent = call.env
    /\ (Prog(1) /\ LastRun) =>
          /\ status = "ok" /\ IsInt(result, 15)
          /\ Len(envs) = 2 /\ envs[2].parent = 1
          /\ DOMAIN envs[2].ht = {<<"n">>} /\ IsInt(In(2, "n"), 10)
    /\ (Prog(2) /\ LastRun) =>
          /\ status = "ok" /\ IsInt(result, 201)
          /\ Len(envs) = 3 /\ envs[2].parent = 1 /\ envs[3].parent = 2
          /\ DOMAIN envs[2].ht = {<<"x">>} /\ IsInt(In(2, "x"), 100)
          /\ DOMAIN envs[3].ht = {<<"n">>} /\ IsInt(In(3, "n"), 101)
          /\ IsInt(In(1, "x"), 5)
    /\ (Prog(3) /\ LastRun) =>
          /\ status = "ok" /\ IsInt(result, 15)
          /\ Len(envs) = 3 /\ envs[2].parent = 1 /\ envs[3].parent = 1
          /\ IsInt(In(2, "x"), 1) /\ IsInt(In(3, "n"), 10)
    /\ (Prog(21) /\ LastRun) =>
          /\ status = "ok" /\ IsInt(result, 5)
          /\ DOMAIN envs[2].ht = {<<"a">>, <<"b">>}
          /\ In(2, "a") = In(1, "b") /\ IsInt(In(2, "a"), 7) /\ IsInt(In(2, "b"), 2)

\* f was called by g, which shadows x, and saw g's x
WitC1 == Prog(2) /\ LastRun /\ status = "ok" /\ Len(envs) = 3 /\ IsInt(result, 201)

(***************************************************************************)
(* C2.  define writes only the frame it is evaluated in: inside a closure  *)
(* body it adds or overwrites the binding in that call's frame, returns    *)
(* the value, and leaves every outer frame as it was, also when the name   *)
(* is bound in an outer frame.                                             *)
(***************************************************************************)
ThmC2 ==
    /\ (ClosureCall /\ status = "ok") => OldFramesKept
    /\ (Prog(4) /\ LastRun) =>
          /\ status = "ok" /\ IsInt(result, 7)
          /\ Len(envs) = 2 /\ DOMAIN envs[2].ht = {<<"x">>} /\ In(2, "x") = result
          /\ IsInt(In(1, "x"), 5)
    /\ (Prog(5) /\ LastRun) =>
          /\ status = "ok" /\ IsInt(result, 5)
          /\ Len(envs) = 3 /\ envs[3].parent = 2
          /\ DOMAIN envs[3].ht = {<<"x">>} /\ IsInt(In(3, "x"), 7)
          /\ DOMAIN envs[2].ht = {<<"y">>}
          /\ IsInt(In(1, "x"), 5)
    /\ (Prog(6) /\ LastRun) =>
          /\ status = "ok" /\ IsInt(result, 7)
          /\ Len(envs) = 2 /\ DOMAIN envs[2].ht = {<<"x">>} /\ In(2, "x") = result
          /\ ~Binds(1, "x")

\* a define of x ran in a call's frame while the root frame binds x
WitC2 ==
    /\ Prog(4) /\ LastRun /\ status = "ok"
    /\ Len(envs) = 2 /\ Binds(2, "x") /\ Binds(1, "x") /\ In(2, "x") # In(1, "x")

(***************************************************************************)
(* C3.  For every n >= 0 bound to x in the frame where it is evaluated,    *)
(* (while (> x 0) (define x (- x 1))) terminates: the condition is         *)
(* evaluated before each pass, each body expression once per pass, the     *)
(* loop stops at the first falsy condition, x is then 0 in that frame and  *)
(* the result is Nil.                                                      *)
(***************************************************************************)
ThmC3 ==
    /\ (Prog(7) /\ LastRun) =>
          /\ status = "ok" /\ result = Nil
          /\ IsInt(In(1, "x"), 0)
          /\ Len(envs) = 1
    /\ (Prog(8) /\ LastRun) =>
          /\ status = "ok" /\ result = Nil
          /\ IsInt(In(1, "x"), 0)
          /\ IsInt(In(1, "c"), job.a + 1)
          /\ IsInt(In(1, "k"), job.a)
    /\ (Prog(9) /\ LastRun) =>
          /\ status = "ok" /\ result = Nil
          /\ Len(envs) = 2 /\ IsInt(In(2, "x"), 0)
          /\ IsInt(In(1, "x"), 9)

\* the loop ran from the largest n, with its passes counted, and ended
WitC3 ==
    /\ Prog(8) /\ job.a = MaxN /\ LastRun /\ result = Nil
    /\ IsInt(In(1, "k"), MaxN) /\ IsInt(In(1, "x"), 0)

(***************************************************************************)
(* C4.  Every primitive fails fast on a wrong argument count: a call whose *)
(* number of arguments is outside the primitive's arity ends in an error   *)
(* and never returns a value.                                              *)
(***************************************************************************)
CxC4 == (Prog(16) /\ LastRun) => status = "error"

(***************************************************************************)
(* C5.  (defun name params body...) is (define name (lambda params         *)
(* body...)): every evaluation of one parsed defun form, the second and    *)
(* later ones too, binds name in the current frame to a closure of params  *)
(* and body..., and leaves the parsed form as it was.                      *)
(***************************************************************************)
\* the parsed defun form of programs 10, 11 and 12, in the heap h as parsed
DefunForm(h) ==
    CASE job.k = 10 -> h[h[h[forms[2]].cdr].cdr].car
      [] job.k = 11 -> h[h[h[h[h[h[forms[1]].cdr].cdr].car].cdr].cdr].car
      [] job.k = 12 -> forms[1]

\* the frame the last evaluation of that form ran in
DefunFrame == IF job.k = 11 THEN 3 ELSE 1

CxC5 ==
    (job.kind = "eval" /\ job.k \in {10, 11, 12} /\ LastRun) =>
       LET h0 == Parsed(job.k, job.a).heap
           dargs == h0[DefunForm(h0)].cdr
           rest == h0[dargs].cdr
       IN  /\ status = "ok"
           /\ Len(envs) >= DefunFrame
           /\ Binds(DefunFrame, "f")
           /\ heap[In(DefunFrame, "f")].type = "FUNCTION"
           /\ heap[In(DefunFrame, "f")].params = h0[rest].car
           /\ heap[In(DefunFrame, "f")].body = h0[rest].cdr
           /\ heap[dargs].cdr = rest

(***************************************************************************)
(* C6.  Round trip: for a value built only from integers, symbols, Nil,    *)
(* True and pairs (improper pairs and symbols read from quoted text        *)
(* included), printing it, reading the text back and printing the result   *)
(* gives the first text again.                                             *)
(***************************************************************************)
CxC6 ==
    (job.kind = "text" \/ Prog(19)) =>
       /\ pc \in {"printed", "reread", "reread_done", "final"} => status = "ok"
       /\ pc = "reread_done" => result # NULL
       /\ pc = "final" => out2 = out1

(***************************************************************************)
(* C7.  When the input ends inside an open list, read ends in an error: it *)
(* neither returns a value nor keeps running.                              *)
(***************************************************************************)
\* read_list has been handed the end of input as an element and is still at it
PastEndInList ==
    /\ pc = "read" /\ input = <<>>
    /\ rstack # <<>> /\ Top.fn = "read_list"
    /\ Top.last # Nil /\ heap[Top.last].car = NULL

CxC7 == PastEndInList => status = "error"

(***************************************************************************)
(* C8.  Nil and True are singletons in every reachable state: nothing      *)
(* creates a second object tagged Nil or True, the empty list reads as the *)
(* Nil instance, eq of two values tagged Nil (or two tagged True) is True  *)
(* and eq of two distinct allocations is Nil.                              *)
(***************************************************************************)
ThmC8 ==
    /\ heap[True] = Obj("TRUE") /\ heap[Nil] = Obj("NIL")
    /\ \A a \in DOMAIN heap :
          /\ heap[a].type = "NIL" => a = Nil
          /\ heap[a].type = "TRUE" => a = True
    /\ (job.kind = "text" /\ job.k \in {1, 15} /\ pc = "have") => result = Nil
    /\ (Prog(17) /\ LastRun) =>
          /\ status = "ok"
          /\ result = IF EqForms[job.a].same THEN True ELSE Nil
    /\ (Prog(18) /\ LastRun) => status = "ok" /\ result = True

\* (eq () ()) was evaluated: both arguments are the Nil instance
WitC8 == Prog(17) /\ job.a = 2 /\ LastRun /\ status = "ok" /\ result = True

(***************************************************************************)
(* C9.  eval is the identity on a self-evaluating value: in any frame, for *)
(* a value tagged Integer, Primitive, Closure, Nil or True, it returns     *)
(* that value (never nothing) and changes no frame.                        *)
(***************************************************************************)
CxC9 ==
    call.op = "evalobj" =>
       /\ status = "ok"
       /\ result = call.arg
       /\ envs = call.envs0

(***************************************************************************)
(* C10.  setcar writes in place and every alias sees it: (setcar p v) with *)
(* p a pair returns that pair, with car v and its cdr as before, and       *)
(* changes no other pair and no binding; with a first argument that is no  *)
(* pair, or an argument count other than 2, the call ends in an error and  *)
(* no pair is changed.                                                     *)
(***************************************************************************)
ThmC10 ==
    /\ (Prog(13) /\ LastRun) =>
          /\ status = "ok"
          /\ result = In(1, "p") /\ result = In(1, "q")
          /\ result \in DOMAIN call.heap0
          /\ heap[heap[In(1, "r")].car].car = heap[result].car
          /\ heap[heap[In(1, "r")].cdr].car = heap[result].car
          /\ IsInt(heap[result].car, 9)
          /\ heap[result] = [call.heap0[result] EXCEPT !.car = heap[result].car]
          /\ \A a \in DOMAIN call.heap0 : a # result => heap[a] = call.heap0[a]
          /\ envs = call.envs0
    /\ (Prog(14) /\ LastRun) => status = "ok" /\ IsInt(result, 9)
    /\ (Prog(15) /\ LastRun) =>
          /\ status = "error"
          /\ OldHeapKept
          /\ envs = call.envs0

\* p, q and both slots of r are one pair, and setcar has written its car
WitC10 ==
    /\ Prog(13) /\ LastRun /\ status = "ok"
    /\ In(1, "p") = In(1, "q") /\ heap[In(1, "r")].car = In(1, "p")
    /\ IsInt(heap[In(1, "q")].car, 9)
    /\ call.heap0[In(1, "q")].car # heap[In(1, "q")].car

=============================================================================
